---- MODULE Spec2Model ----
(***************************************************************************)
(* A model of ipopt/ipopt_wrapper.py: the IpoptProblemWrapper adapter      *)
(* (combined value+gradient cache, counters, constraint stacking), the     *)
(* bound translators, the option translation of minimize_ipopt and the     *)
(* assembly of its result.                                                 *)
(*                                                                         *)
(* User callables are uninterpreted: the result of calling one is the      *)
(* record of the callable's name and the arguments it was called with, so  *)
(* two results are equal exactly when they come from the same call.  A     *)
(* user callable may also raise; that is an input of the action calling it.*)
(* Points are numpy vectors, modelled as tuples of integers.               *)
(***************************************************************************)
EXTENDS Integers, Sequences, FiniteSets, TLC

VARIABLES
    \* ---- IpoptProblemWrapper attributes (ipopt_wrapper.py:18-51)
    fun_with_jac,       \* "fun" when jac is True, else "None"
    last_x,             \* NoPoint (None) or the point of the last cache miss
    last_value,         \* UnsetValue (attribute absent) or the cached pair
    jac,                \* "approx_fprime" (the lambda), "True" or "callable"
    args, kwargs,       \* extra positional / keyword arguments
    constraint_funs, constraint_jacs, constraint_args,
    nfev, njev, nit,
    \* ---- the driver of the adapter
    pc,                 \* where the caller / minimize_ipopt stands
    err,                \* the exception that ended construction or the run
    conlist,            \* the constraints argument as the caller supplied it
    ret,                \* the outcome of the most recent adapter call
    hist,               \* the objective/gradient calls made so far, in order
    bnd,                \* the outcome of get_constraint_bounds
    reported,           \* <<i>> for the last iteration index i the solver
                        \* reported to intermediate, <<>> before the first
    \* ---- minimize_ipopt
    run,                \* number of minimize_ipopt calls started
    call,               \* the arguments of the current minimize_ipopt call
    caller_options,     \* contents of the caller's options mapping object
    orig_options,       \* what that mapping held when the caller built it
    local_options,      \* the fresh {} of line 160 (options is None)
    applied,            \* the addOption(name, value) calls made on nlp
    nlp,                \* the cyipopt.problem of line 162
    solve_invoked,      \* nlp.solve was entered in this run
    ncb,                \* adapter callbacks made by the solver in this run
    result              \* the OptimizeResult returned, or NoResult

wrapper == <<fun_with_jac, last_x, last_value, jac, args, kwargs,
             constraint_funs, constraint_jacs, constraint_args,
             nfev, njev, nit>>
config  == <<fun_with_jac, jac, args, kwargs,
             constraint_funs, constraint_jacs, constraint_args>>
minvars == <<run, call, caller_options, orig_options, local_options,
             applied, nlp, solve_invoked, result>>
vars    == <<wrapper, pc, err, conlist, ret, hist, bnd, reported, minvars, ncb>>

----------------------------------------------------------------------------
(* Bounds of the model *)

\* objective/gradient calls made on one adapter
MaxCalls == 3
\* largest iteration index the solver reports to intermediate
MaxIter == 2
\* longest constraint list
MaxCons == 2
\* largest output arity of a constraint function
MaxArity == 2
\* minimize_ipopt calls made with one options mapping
MaxRuns == 2
\* adapter callbacks the solver makes in one run
MaxCallbacks == 2

----------------------------------------------------------------------------
(* Values *)

\* Python's None for a point (self.last_x = None)
NoPoint == <<>>

\* the points the adapter is called at, for dimension n
Points(n) ==
    IF n = 1 THEN {<<0>>, <<1>>} ELSE {<<0, 0>>, <<0, 1>>}

\* the value of calling the user callable fn as fn(x, *a, **kw)
Apply(fn, x, a, kw) == [fn |-> fn, x |-> x, args |-> a, kwargs |-> kw]

\* self.last_value before the first assignment: the attribute does not exist
UnsetValue == Apply("unset", NoPoint, <<>>, <<>>)

\* r[k] for the pair r a combined evaluator returns
Item(r, k) == [of |-> r, item |-> k]

\* a value that stands for "nothing returned"
NoOut == Item(UnsetValue, 0)

NoRet == [op |-> "none", x |-> NoPoint, iter |-> 0, kind |-> "none", out |-> NoOut]

\* np.any in place of np.all: one equal coordinate would do
PointEqAny(a, b) == \E i \in 1..Len(a) : i <= Len(b) /\ a[i] = b[i]
\* np.all(self.last_x == x) for two vectors of one length (line 54)
PointEq(a, b) == \A i \in 1..Len(a) : i <= Len(b) /\ a[i] = b[i]

----------------------------------------------------------------------------
(* Constraint specifications: the dictionaries of the constraints argument *)

\* names of the user's constraint functions
ConFunNames == {"g", "h"}

\* the output arity m_i of each constraint function (a property of the user's
\* function, probed by get_constraint_bounds at x0)
Arity(f) == IF f = "g" THEN 1 ELSE MaxArity

\* one constraint dictionary: con['fun'], whether con.get('jac') is not None,
\* con['type'] and con.get('args', [])
ConSpecs ==
    [fun : ConFunNames, jac : BOOLEAN, type : {"eq", "ineq", "le"},
     args : {<<>>, <<5>>}]

\* lists of constraint dictionaries of length 0..n
RECURSIVE ConSeqs(_)
ConSeqs(n) ==
    IF n = 0 THEN {<<>>}
    ELSE LET shorter == ConSeqs(n - 1)
         IN  shorter \cup {Append(s, c) : s \in {t \in shorter : Len(t) = n - 1},
                                           c \in ConSpecs}

\* the constraints argument: a list of dictionaries (many), or one bare
\* dictionary (one); the field not in use holds a filler
NoCon == [fun |-> "none", jac |-> FALSE, type |-> "none", args |-> <<>>]
ConList(s) == [isdict |-> FALSE, one |-> NoCon, many |-> s]
ConDict(c) == [isdict |-> TRUE, one |-> c, many |-> <<>>]

ConArgs(n) ==
    {ConList(s) : s \in ConSeqs(n)}
        \cup (IF n = 0 THEN {} ELSE {ConDict(c) : c \in ConSpecs})

\* if isinstance(constraints, dict): constraints = (constraints, )
AsTuple(c) == IF c.isdict THEN <<c.one>> ELSE c.many

----------------------------------------------------------------------------
(* IpoptProblemWrapper.__init__ *)

NoWrapper(e) ==
    [err |-> e, fun_with_jac |-> "None", last_x |-> NoPoint,
     last_value |-> UnsetValue, jac |-> "None", args |-> <<>>, kwargs |-> <<>>,
     constraint_funs |-> <<>>, constraint_jacs |-> <<>>, constraint_args |-> <<>>,
     nfev |-> 0, njev |-> 0, nit |-> 0]

\* the constraint loop of lines 38-47: a constraint without 'jac' needs
\* FunctionWithApproxJacobian, a name the module neither defines nor imports
ConstraintLoopError(cons) ==
    IF \E i \in 1..Len(cons) : ~cons[i].jac
    THEN "NameError:FunctionWithApproxJacobian" ELSE "none"

\* the Hessian check made only once the gradient specification is accepted
HessErrorAfterJac(a) ==
    IF a.jac \in {"None", "True", "callable"} /\ (a.hess # "None" \/ a.hessp # "None")
    THEN "NotImplementedError:hessian" ELSE "none"
\* the check of lines 20-21, the first statement after the attribute defaults
HessError(a) ==
    IF a.hess # "None" \/ a.hessp # "None"
    THEN "NotImplementedError:hessian" ELSE "none"

\* a = [jac, hess, hessp, args, kwargs, constraints]
NewWrapper(a) ==
    LET cons == AsTuple(a.constraints)
    IN  IF HessError(a) # "none" THEN NoWrapper(HessError(a))
        ELSE IF a.jac \notin {"None", "True", "callable"}
        THEN NoWrapper("NotImplementedError:jac")
        ELSE IF ConstraintLoopError(cons) # "none"
        THEN NoWrapper(ConstraintLoopError(cons))
        ELSE [err |-> "none",
              fun_with_jac |-> IF a.jac = "True" THEN "fun" ELSE "None",
              last_x |-> NoPoint,
              last_value |-> UnsetValue,
              jac |-> IF a.jac = "None" THEN "approx_fprime" ELSE a.jac,
              args |-> a.args,
              kwargs |-> a.kwargs,
              constraint_funs |-> [i \in 1..Len(cons) |-> cons[i].fun],
              constraint_jacs |-> [i \in 1..Len(cons) |-> cons[i].fun],
              constraint_args |-> [i \in 1..Len(cons) |-> cons[i].args],
              nfev |-> 0, njev |-> 0, nit |-> 0]

\* the adapter's attributes are those of w (in the initial state)
WrapperIs(w) ==
    /\ fun_with_jac = w.fun_with_jac /\ last_x = w.last_x
    /\ last_value = w.last_value /\ jac = w.jac
    /\ args = w.args /\ kwargs = w.kwargs
    /\ constraint_funs = w.constraint_funs
    /\ constraint_jacs = w.constraint_jacs
    /\ constraint_args = w.constraint_args
    /\ nfev = w.nfev /\ njev = w.njev /\ nit = w.nit

\* the adapter's attributes become those of w
WrapperBecomes(w) ==
    /\ fun_with_jac' = w.fun_with_jac /\ last_x' = w.last_x
    /\ last_value' = w.last_value /\ jac' = w.jac
    /\ args' = w.args /\ kwargs' = w.kwargs
    /\ constraint_funs' = w.constraint_funs
    /\ constraint_jacs' = w.constraint_jacs
    /\ constraint_args' = w.constraint_args
    /\ nfev' = w.nfev /\ njev' = w.njev /\ nit' = w.nit

----------------------------------------------------------------------------
(* The adapter's operations *)

\* the adapter can be called: by its owner directly, or by the running solver
Callable == pc \in {"direct", "solving"}

\* the dimension n of the points the adapter is called at
Dim == IF pc = "solving" THEN nlp.n ELSE 2

\* a call that ended in an exception ends the solver run (the exception
\* propagates out of nlp.solve); a direct caller may catch it and go on
AfterCall(kind) ==
    /\ pc' = IF pc = "solving" /\ kind # "value" THEN "raised" ELSE pc
    /\ err' = IF pc = "solving" /\ kind # "value" THEN kind ELSE err
    /\ ncb' = IF pc = "solving" THEN ncb + 1 ELSE ncb

\* evaluate_fun_with_grad(x), lines 53-58; raises: self.fun raises when called.
\* The result holds the attributes after the call, how the call ended and
\* whether self.fun was invoked; what is returned is the new last_value.
EvaluateFunWithGrad(x, raises) ==
    IF last_x = NoPoint \/ ~PointEq(last_x, x)
    THEN [last_x |-> x,
          nfev |-> nfev + 1,
          last_value |-> IF raises THEN last_value
                         ELSE Apply("fun", x, args, kwargs),
          kind |-> IF raises THEN "raised" ELSE "value",
          invoked |-> TRUE]
    ELSE [last_x |-> last_x, nfev |-> nfev, last_value |-> last_value,
          kind |-> IF last_value = UnsetValue THEN "AttributeError" ELSE "value",
          invoked |-> FALSE]

\* objective(x), lines 60-65
Objective(x, raises) ==
    /\ Callable
    /\ Len(hist) < MaxCalls
    /\ x \in Points(Dim)
    /\ IF fun_with_jac # "None"
       THEN LET e == EvaluateFunWithGrad(x, raises)
            IN  /\ last_x' = e.last_x
                /\ nfev' = e.nfev
                /\ last_value' = e.last_value
                /\ ret' = [op |-> "objective", x |-> x, iter |-> 0, kind |-> e.kind,
                           out |-> IF e.kind = "value" THEN Item(e.last_value, 0)
                                   ELSE NoOut]
                /\ hist' = Append(hist, [op |-> "objective", x |-> x, kind |-> e.kind,
                                         invoked |-> e.invoked])
                /\ AfterCall(e.kind)
       ELSE LET kind == IF raises THEN "raised" ELSE "value"
            IN  /\ nfev' = nfev + 1
                /\ ret' = [op |-> "objective", x |-> x, iter |-> 0, kind |-> kind,
                           out |-> IF raises THEN NoOut
                                   ELSE Apply("fun", x, args, kwargs)]
                /\ hist' = Append(hist, [op |-> "objective", x |-> x, kind |-> kind, invoked |-> TRUE])
                /\ AfterCall(kind)
                /\ UNCHANGED <<last_x, last_value>>
    /\ UNCHANGED <<config, njev, nit, conlist, bnd, reported, minvars>>

\* self.jac(x, *self.args, **self.kwargs), line 72.  The lambda of line 24
\* forwards **kwargs to approx_fprime(xk, f, epsilon, *args), which takes no
\* keyword arguments: a non-empty kwargs is a TypeError.
CallJac(x, raises) ==
    IF jac = "approx_fprime"
    THEN IF kwargs # <<>> THEN [kind |-> "TypeError", out |-> NoOut]
         ELSE IF raises THEN [kind |-> "raised", out |-> NoOut]
         ELSE [kind |-> "value", out |-> Apply("approx_fprime(fun)", x, args, kwargs)]
    ELSE IF raises THEN [kind |-> "raised", out |-> NoOut]
         ELSE [kind |-> "value", out |-> Apply("jac", x, args, kwargs)]

\* gradient(x), lines 67-72
Gradient(x, raises) ==
    /\ Callable
    /\ Len(hist) < MaxCalls
    /\ x \in Points(Dim)
    /\ IF fun_with_jac # "None"
       THEN LET e == EvaluateFunWithGrad(x, raises)
            IN  /\ last_x' = e.last_x
                /\ nfev' = e.nfev
                /\ last_value' = e.last_value
                /\ njev' = njev
                /\ ret' = [op |-> "gradient", x |-> x, iter |-> 0, kind |-> e.kind,
                           out |-> IF e.kind = "value" THEN Item(e.last_value, 1)
                                   ELSE NoOut]
                /\ hist' = Append(hist, [op |-> "gradient", x |-> x, kind |-> e.kind,
                                         invoked |-> e.invoked])
                /\ AfterCall(e.kind)
       ELSE LET r == CallJac(x, raises)
            IN  /\ njev' = njev + 1
                /\ ret' = [op |-> "gradient", x |-> x, iter |-> 0, kind |-> r.kind,
                           out |-> r.out]
                /\ hist' = Append(hist, [op |-> "gradient", x |-> x, kind |-> r.kind,
                                         invoked |-> r.kind # "TypeError"])
                /\ AfterCall(r.kind)
                /\ UNCHANGED <<last_x, last_value, nfev>>
    /\ UNCHANGED <<config, nit, conlist, bnd, reported, minvars>>

\* what the user's constraint function f returns for f(x, *a): a vector of
\* Arity(f) components
ConValue(f, x, a) ==
    [k \in 1..Arity(f) |-> [fn |-> f, x |-> x, args |-> a, comp |-> k]]

\* what the Jacobian supplied with constraint function f returns for
\* jac(x, *a): one row per component of f
ConJacValue(f, x, a) ==
    [k \in 1..Arity(f) |-> [jac_of |-> f, x |-> x, args |-> a, row |-> k]]

\* a concatenation that puts the later arrays first
RECURSIVE StackReversed(_)
StackReversed(parts) ==
    IF parts = <<>> THEN <<>> ELSE StackReversed(Tail(parts)) \o Head(parts)
\* np.hstack / np.vstack of a list of arrays: their concatenation in list order
RECURSIVE Stack(_)
Stack(parts) ==
    IF parts = <<>> THEN <<>> ELSE Head(parts) \o Stack(Tail(parts))

\* the loop of lines 75-77: fun(x, *args) over zip(funs, args)
ConValues(x) ==
    [i \in 1..Len(constraint_funs) |->
        ConValue(constraint_funs[i], x, constraint_args[i])]

\* the loop of lines 81-83: jac(x, *args) over zip(jacs, args)
ConJacValues(x) ==
    [i \in 1..Len(constraint_jacs) |->
        ConJacValue(constraint_jacs[i], x, constraint_args[i])]

\* a solver built with m = 0 constraints has no constraint value or Jacobian
\* to ask the adapter for
SolverAsksConstraints == pc = "solving" => nlp.m > 0

\* constraints(x), lines 74-78.  np.hstack of an empty list is a ValueError.
Constraints(x, raises) ==
    /\ Callable
    /\ SolverAsksConstraints
    /\ x \in Points(Dim)
    /\ LET kind == IF raises /\ constraint_funs # <<>> THEN "raised"
                   ELSE IF constraint_funs = <<>> THEN "ValueError" ELSE "value"
       IN  /\ ret' = [op |-> "constraints", x |-> x, iter |-> 0, kind |-> kind,
                      out |-> IF kind = "value" THEN Stack(ConValues(x)) ELSE <<>>]
           /\ AfterCall(kind)
    /\ UNCHANGED <<wrapper, conlist, hist, bnd, reported, minvars>>

\* jacobian(x), lines 80-84.  np.vstack of an empty list is a ValueError.
Jacobian(x, raises) ==
    /\ Callable
    /\ SolverAsksConstraints
    /\ x \in Points(Dim)
    /\ LET kind == IF raises /\ constraint_jacs # <<>> THEN "raised"
                   ELSE IF constraint_jacs = <<>> THEN "ValueError" ELSE "value"
       IN  /\ ret' = [op |-> "jacobian", x |-> x, iter |-> 0, kind |-> kind,
                      out |-> IF kind = "value" THEN Stack(ConJacValues(x)) ELSE <<>>]
           /\ AfterCall(kind)
    /\ UNCHANGED <<wrapper, conlist, hist, bnd, reported, minvars>>

\* an iteration counter that keeps the largest index seen
RecordIterationMax(iter_count) == IF iter_count > nit THEN iter_count ELSE nit
\* self.nit = iter_count, line 101
RecordIteration(iter_count) == iter_count

\* intermediate(alg_mod, iter_count, ...), lines 86-101
Intermediate(iter_count) ==
    /\ Callable
    /\ iter_count \in 0..MaxIter
    /\ nit' = RecordIteration(iter_count)
    /\ reported' = <<iter_count>>
    /\ ret' = [op |-> "intermediate", x |-> NoPoint, iter |-> iter_count,
               kind |-> "value", out |-> NoOut]
    /\ AfterCall("value")
    /\ UNCHANGED <<config, last_x, last_value, nfev, njev, conlist, hist, bnd,
                   minvars>>

----------------------------------------------------------------------------
(* The bound translators *)

\* the entries of the bound vectors: 0.0 and the INF default of line 113
Zero == "0.0"
INF == "1e19"

NoBounds == [err |-> "none", cl |-> <<>>, cu |-> <<>>, called |-> FALSE]

\* get_bounds(bounds), lines 104-110: None, or the list of (lower, upper) pairs
GetBounds(bounds) ==
    IF bounds = <<>> THEN [lb |-> "None", ub |-> "None"]
    ELSE [lb |-> [i \in 1..Len(bounds) |-> bounds[i][1]],
          ub |-> [i \in 1..Len(bounds) |-> bounds[i][2]]]

\* m copies of v
Copies(m, v) == [k \in 1..m |-> v]

\* the upper bounds line 123-128 give one constraint of arity m
UpperSegment(type, m) ==
    IF type = "eq" THEN Copies(m, Zero) ELSE Copies(m, INF)

\* the loop of lines 120-128 over the constraints not yet seen, cl and cu
\* being what the earlier ones gave
RECURSIVE BoundsLoop(_, _, _)
BoundsLoop(cons, cl, cu) ==
    IF cons = <<>> THEN [err |-> "none", cl |-> cl, cu |-> cu, called |-> TRUE]
    ELSE LET con == Head(cons)
             m == Len(ConValue(con.fun, NoPoint, con.args))
         IN  IF con.type \notin {"eq", "ineq"}
             THEN [err |-> "ValueError:type", cl |-> <<>>, cu |-> <<>>,
                   called |-> TRUE]
             ELSE BoundsLoop(Tail(cons), cl \o Copies(m, Zero),
                             cu \o UpperSegment(con.type, m))

\* get_constraint_bounds(constraints, x0), lines 113-132
GetConstraintBounds(constraints) == BoundsLoop(AsTuple(constraints), <<>>, <<>>)

\* a direct call of get_constraint_bounds on the caller's constraint list
CallGetConstraintBounds ==
    /\ pc \in {"direct", "failed"}
    /\ bnd' = GetConstraintBounds(conlist)
    /\ UNCHANGED <<wrapper, pc, err, conlist, ret, hist, reported, minvars, ncb>>

----------------------------------------------------------------------------
(* The adapter used directly *)

\* the extra arguments the objective is given
Extras == {[args |-> <<>>, kwargs |-> <<>>], [args |-> <<7>>, kwargs |-> <<"scale">>]}

JacArgs == {"None", "True", "callable", "False"}

NoOptions == <<>>
NoNlp == [n |-> 0, m |-> 0, lb |-> "None", ub |-> "None", cl |-> <<>>, cu |-> <<>>]
NoResult == [made |-> FALSE]
NoCall == [made |-> FALSE]

\* nothing of minimize_ipopt has happened
NoMinimize ==
    /\ run = 0 /\ call = NoCall
    /\ caller_options = NoOptions /\ orig_options = NoOptions
    /\ local_options = NoOptions /\ applied = <<>>
    /\ nlp = NoNlp /\ solve_invoked = FALSE /\ result = NoResult

\* constructor arguments: every gradient specification, with and without
\* Hessians, over a few constraint lists
SomeConArgs ==
    {ConList(<<>>),
     ConList(<<[fun |-> "h", jac |-> TRUE, type |-> "ineq", args |-> <<5>>],
               [fun |-> "g", jac |-> TRUE, type |-> "eq", args |-> <<>>]>>),
     ConList(<<[fun |-> "g", jac |-> FALSE, type |-> "ineq", args |-> <<>>]>>)}

CtorArgs ==
    {[jac |-> j, hess |-> h, hessp |-> hp, args |-> e.args, kwargs |-> e.kwargs,
      constraints |-> c] :
        j \in JacArgs, h \in {"None", "hess"}, hp \in {"None", "hessp"},
        e \in Extras, c \in SomeConArgs}

\* constructor arguments over every constraint list of up to MaxCons entries
CtorArgsCons ==
    {[jac |-> j, hess |-> "None", hessp |-> "None", args |-> <<>>, kwargs |-> <<>>,
      constraints |-> c] : j \in {"None", "True"}, c \in ConArgs(MaxCons)}

\* IpoptProblemWrapper(fun, **a) has been called
Constructed(a) ==
    LET w == NewWrapper(a)
    IN  /\ WrapperIs(w)
        /\ pc = IF w.err = "none" THEN "direct" ELSE "failed"
        /\ err = w.err
        /\ conlist = a.constraints
        /\ ret = NoRet /\ hist = <<>> /\ bnd = NoBounds /\ ncb = 0
        /\ reported = <<>>
        /\ NoMinimize

Init == \E a \in CtorArgs : Constructed(a)

Next ==
    \/ \E x \in Points(2), raises \in BOOLEAN : Objective(x, raises)
    \/ \E x \in Points(2), raises \in BOOLEAN : Gradient(x, raises)
    \/ \E x \in Points(2), raises \in BOOLEAN : Constraints(x, raises)
    \/ \E x \in Points(2), raises \in BOOLEAN : Jacobian(x, raises)
    \/ \E i \in 0..MaxIter : Intermediate(i)

Spec == Init /\ [][Next]_vars

InitCons == \E a \in CtorArgsCons : Constructed(a)

NextCons ==
    \/ \E x \in Points(2), raises \in BOOLEAN : Constraints(x, raises)
    \/ \E x \in Points(2), raises \in BOOLEAN : Jacobian(x, raises)
    \/ CallGetConstraintBounds

SpecCons == InitCons /\ [][NextCons]_vars

----------------------------------------------------------------------------
(* Option mappings: Python dictionaries, modelled as the sequence of their   *)
(* <<name, value>> items in insertion order, which is the order items()      *)
(* yields them in.  Values are written as strings.                           *)

\* name in options
Has(o, name) == \E i \in 1..Len(o) : o[i][1] = name

\* options[name], for a name in options
Get(o, name) == (CHOOSE e \in {o[i] : i \in 1..Len(o)} : e[1] = name)[2]

\* the dictionary after options.pop(name)
Without(o, name) == SelectSeq(o, LAMBDA e : e[1] # name)

\* the dictionary after options[name] = value
With(o, name, value) ==
    IF Has(o, name)
    THEN [i \in 1..Len(o) |-> IF o[i][1] = name THEN <<name, value>> ELSE o[i]]
    ELSE Append(o, <<name, value>>)

\* replace_option(options, oldname, newname), lines 135-139
ReplaceOption(o, oldname, newname) ==
    IF Has(o, oldname) /\ ~Has(o, newname)
    THEN With(Without(o, oldname), newname, Get(o, oldname))
    ELSE o

\* tol or 1e-8 (line 176): None and 0 are falsy
TolOrDefault(tol) == IF tol \in {"None", "0"} THEN "1e-8" ELSE tol

\* options[name] = value unless name is in options (lines 173-181)
SetDefault(o, name, value) == IF Has(o, name) THEN o ELSE With(o, name, value)

\* the options mapping after lines 171-181
TranslateOptions(o, tol, hess, hessp) ==
    LET o1 == ReplaceOption(o, "disp", "print_level")
        o2 == ReplaceOption(o1, "maxiter", "max_iter")
        o3 == SetDefault(o2, "print_level", "0")
        o4 == SetDefault(o3, "tol", TolOrDefault(tol))
        o5 == SetDefault(o4, "mu_strategy", "adaptive")
    IN  IF ~Has(o5, "hessian_approximation") /\ hess = "None" /\ hessp = "None"
        THEN With(o5, "hessian_approximation", "limited-memory")
        ELSE o5

----------------------------------------------------------------------------
(* minimize_ipopt *)

\* x0 as np.asarray sees it: a shape and the flat data; a bare scalar has
\* shape ()
\* np.atleast_1d(x0), line 152: a bare scalar becomes a vector of length 1
AtLeast1d(x0) ==
    IF x0.shape = <<>> THEN [shape |-> <<1>>, data |-> x0.data] ELSE x0

\* np.asarray(x0).shape == (), line 190
IsScalar(x0) == x0.shape = <<>>

\* the mapping the options name is bound to in the current call: the
\* caller's object, or the fresh {} of line 160
Options == IF call.options = "None" THEN local_options ELSE caller_options

\* lines 152-154: the adapter is constructed; its constructor may raise
MinimizeStart(a) ==
    /\ pc \in {"idle", "returned", "raised"}
    /\ LET w == NewWrapper([jac |-> a.jac, hess |-> a.hess, hessp |-> a.hessp,
                            args |-> a.args, kwargs |-> a.kwargs,
                            constraints |-> a.constraints])
       IN  /\ WrapperBecomes(w)
           /\ pc' = IF w.err = "none" THEN "built" ELSE "raised"
           /\ err' = w.err
    /\ run' = run + 1
    /\ call' = [a EXCEPT !.given = IF a.options = "None" THEN NoOptions
                                   ELSE caller_options]
    /\ conlist' = a.constraints
    /\ ret' = NoRet /\ hist' = <<>> /\ bnd' = NoBounds /\ ncb' = 0
    /\ reported' = <<>>
    /\ local_options' = NoOptions /\ applied' = <<>> /\ nlp' = NoNlp
    /\ solve_invoked' = FALSE /\ result' = NoResult
    /\ UNCHANGED <<caller_options, orig_options>>

\* lines 155-168: the bound vectors, the default for options, and the solver
\* object; get_constraint_bounds may raise
MinimizeBounds ==
    /\ pc = "built"
    /\ LET b == GetBounds(call.bounds)
           c == GetConstraintBounds(call.constraints)
       IN  /\ bnd' = c
           /\ IF c.err # "none"
              THEN /\ pc' = "raised" /\ err' = c.err
                   /\ UNCHANGED nlp
              ELSE /\ pc' = "bounded" /\ err' = err
                   /\ nlp' = [n |-> AtLeast1d(call.x0).shape[1], m |-> Len(c.cl),
                              lb |-> b.lb, ub |-> b.ub, cl |-> c.cl, cu |-> c.cu]
    /\ UNCHANGED <<wrapper, conlist, ret, hist, reported, ncb, run, call, caller_options,
                   orig_options, local_options, applied, solve_invoked, result>>

\* lines 170-181: the aliases are renamed and the defaults injected, in the
\* mapping object itself
MinimizeOptions ==
    /\ pc = "bounded"
    /\ LET o == TranslateOptions(Options, call.tol, call.hess, call.hessp)
       IN  IF call.options = "None"
           THEN local_options' = o /\ UNCHANGED caller_options
           ELSE caller_options' = o /\ UNCHANGED local_options
    /\ pc' = "adding"
    /\ UNCHANGED <<wrapper, err, conlist, ret, hist, bnd, reported, ncb, run, call,
                   orig_options, applied, nlp, solve_invoked, result>>

\* one turn of the loop of lines 182-186: nlp.addOption(option, value), which
\* the solver accepts or rejects with a TypeError
AddOption(accepted) ==
    /\ pc = "adding"
    /\ Len(applied) < Len(Options)
    /\ applied' = Append(applied, Options[Len(applied) + 1])
    /\ pc' = IF accepted THEN "adding" ELSE "raised"
    /\ err' = IF accepted THEN err ELSE "TypeError:option"
    /\ UNCHANGED <<wrapper, conlist, ret, hist, bnd, reported, ncb, run, call,
                   caller_options, orig_options, local_options, nlp,
                   solve_invoked, result>>

\* line 188: nlp.solve(_x0) is entered once every option is applied
SolveBegin ==
    /\ pc = "adding"
    /\ Len(applied) = Len(Options)
    /\ pc' = "solving"
    /\ solve_invoked' = TRUE
    /\ UNCHANGED <<wrapper, err, conlist, ret, hist, bnd, reported, ncb, run, call,
                   caller_options, orig_options, local_options, applied, nlp,
                   result>>

\* the status codes the solver ends with: solved, solved to acceptable level,
\* maximum number of iterations exceeded
Statuses == {0, 1, -1}

\* the solution vectors the solver ends at, one of each dimension
Solutions == {<<1>>, <<1, 1>>}

\* the solver's info payload for a run ending with status at solution sol
Info(status, sol) ==
    [status |-> status, status_msg |-> <<"status_msg", status>>,
     obj_val |-> <<"obj_val", sol>>]

\* a success flag that also accepts the positive status codes
SuccessNonNegative(status) == status >= 0
\* success=info['status'] == 0, line 193
Success(status) == status = 0

\* lines 190-199: the result record
OptimizeResult(x, info) ==
    [made |-> TRUE,
     x |-> IF IsScalar(call.x0) THEN <<"scalar", x[1]>> ELSE <<"vector", x>>,
     success |-> Success(info.status),
     status |-> info.status,
     message |-> info.status_msg,
     fun |-> info.obj_val,
     info |-> info,
     nfev |-> nfev, njev |-> njev, nit |-> nit]

\* lines 188-199: nlp.solve returns (x, info) and the result is assembled
SolveReturn(status, sol) ==
    /\ pc = "solving"
    /\ Len(sol) = nlp.n
    /\ result' = OptimizeResult(sol, Info(status, sol))
    /\ pc' = "returned"
    /\ UNCHANGED <<wrapper, err, conlist, ret, hist, bnd, reported, ncb, run, call,
                   caller_options, orig_options, local_options, applied, nlp,
                   solve_invoked>>

----------------------------------------------------------------------------
(* minimize_ipopt called once, over every kind of argument *)

\* the options mappings a caller passes
OptionItems ==
    <<<<"disp", "5">>, <<"maxiter", "100">>, <<"print_level", "3">>,
      <<"max_iter", "50">>, <<"tol", "1e-6">>>>

\* the mappings holding the items of OptionItems at the positions in keep
Mapping(keep) == SelectSeq(OptionItems, LAMBDA e : e[1] \in keep)

OptionNames == {OptionItems[i][1] : i \in 1..Len(OptionItems)}

StartPoints == {[shape |-> <<>>, data |-> <<0>>], [shape |-> <<2>>, data |-> <<0, 1>>]}

RunConArgs ==
    SomeConArgs \cup
        {ConDict([fun |-> "h", jac |-> TRUE, type |-> "le", args |-> <<>>])}

CallArgsRun ==
    {[made |-> TRUE, jac |-> j, hess |-> h, hessp |-> hp,
      args |-> <<>>, kwargs |-> <<>>, constraints |-> c, tol |-> t, x0 |-> x0,
      bounds |-> IF x0.shape = <<>> THEN <<>> ELSE <<<<0, 1>>, <<0, 1>>>>,
      options |-> o, given |-> NoOptions] :
        j \in JacArgs, h \in {"None", "hess"}, hp \in {"None", "hessp"},
        c \in RunConArgs, t \in {"None", "0"}, x0 \in StartPoints,
        o \in {"None", "caller"}}

\* the running solver may call the adapter
SolverCalls == pc = "solving" /\ ncb < MaxCallbacks

\* the steps of a call after its start
MinimizeStep ==
    \/ MinimizeBounds
    \/ MinimizeOptions
    \/ \E accepted \in BOOLEAN : AddOption(accepted)
    \/ SolveBegin
    \/ \E x \in Points(Dim), raises \in BOOLEAN : SolverCalls /\ Objective(x, raises)
    \/ \E x \in Points(Dim), raises \in BOOLEAN : SolverCalls /\ Gradient(x, raises)
    \/ \E x \in Points(Dim), raises \in BOOLEAN : SolverCalls /\ Constraints(x, raises)
    \/ \E x \in Points(Dim), raises \in BOOLEAN : SolverCalls /\ Jacobian(x, raises)
    \/ \E i \in 0..MaxIter : SolverCalls /\ Intermediate(i)
    \/ \E status \in Statuses, sol \in Solutions : SolveReturn(status, sol)

\* no call made yet; the caller holds the options mapping o
Idle(o) ==
    /\ WrapperIs(NoWrapper("none"))
    /\ pc = "idle" /\ err = "none"
    /\ conlist = ConList(<<>>)
    /\ ret = NoRet /\ hist = <<>> /\ bnd = NoBounds /\ ncb = 0
        /\ reported = <<>>
    /\ run = 0 /\ call = NoCall
    /\ caller_options = o /\ orig_options = o
    /\ local_options = NoOptions /\ applied = <<>>
    /\ nlp = NoNlp /\ solve_invoked = FALSE /\ result = NoResult

InitRun == \E keep \in {{}, {"disp"}, {"tol", "maxiter"}} : Idle(Mapping(keep))

NextRun ==
    \/ \E a \in CallArgsRun : run = 0 /\ MinimizeStart(a)
    \/ MinimizeStep

SpecRun == InitRun /\ [][NextRun]_vars

----------------------------------------------------------------------------
(* minimize_ipopt called repeatedly with one options mapping *)

CallArgsOpt ==
    {[made |-> TRUE, jac |-> "True", hess |-> "None", hessp |-> "None",
      args |-> <<>>, kwargs |-> <<>>,
      constraints |-> c, tol |-> t,
      x0 |-> [shape |-> <<2>>, data |-> <<0, 1>>], bounds |-> <<>>,
      options |-> o, given |-> NoOptions] :
        c \in {ConList(<<>>),
                ConDict([fun |-> "g", jac |-> TRUE, type |-> "eq", args |-> <<>>])},
        t \in {"None", "1e-4", "1e-2"}, o \in {"None", "caller"}}

InitMin == \E keep \in SUBSET OptionNames : Idle(Mapping(keep))

NextMin ==
    \/ \E a \in CallArgsOpt : run < MaxRuns /\ MinimizeStart(a)
    \/ MinimizeStep

SpecMin == InitMin /\ [][NextMin]_vars

----------------------------------------------------------------------------
(* Properties of the adapter *)

\* the evaluator's pair at point x, as the adapter calls it
Evaluator(x) == [fn |-> "fun", x |-> x, args |-> args, kwargs |-> kwargs]

\* the requests in h made at a point other than the one requested just before
\* (the first request included)
NewPointRequests(h) ==
    Cardinality({i \in 1..Len(h) : i = 1 \/ h[i].x # h[i - 1].x})

\* C1: in combined-evaluator mode, over every sequence of objective and
\* gradient calls, nfev counts exactly the calls made at a point different
\* from the immediately preceding requested point (the first call included),
\* and njev stays 0.
C1_CombinedCounters ==
    fun_with_jac # "None" =>
        /\ nfev = NewPointRequests(hist)
        /\ njev = 0

\* objective(x) then gradient(x) at one point: nfev 1; and objective at two
\* distinct points: nfev 2
C1_Witness ==
    /\ fun_with_jac # "None"
    /\ Len(hist) = 3
    /\ hist[1].op = "objective" /\ hist[2].op = "gradient"
    /\ hist[3].op = "objective"
    /\ hist[1].x = hist[2].x /\ hist[3].x # hist[2].x
    /\ hist[1].kind = "value" /\ hist[2].kind = "value"
    /\ nfev = 2 /\ njev = 0

\* C2: in combined mode the cached pair is always the evaluator's result at
\* the cached point, and every objective/gradient call that returns, returns
\* the evaluator's value/gradient at the point it was called with.
C2_CacheIsForLastPoint ==
    fun_with_jac # "None" =>
        /\ last_x # NoPoint => last_value = Evaluator(last_x)
        /\ (ret.op = "objective" /\ ret.kind = "value")
               => ret.out = [of |-> Evaluator(ret.x), item |-> 0]
        /\ (ret.op = "gradient" /\ ret.kind = "value")
               => ret.out = [of |-> Evaluator(ret.x), item |-> 1]

\* C10: in combined mode, when the evaluator raised during a cache miss at x,
\* the next call at that same x invokes the evaluator again: it neither
\* returns a cached pair nor fails on the missing cached value.
C10_RaiseDoesNotClaimPoint ==
    fun_with_jac # "None" =>
        \A i \in 1..(Len(hist) - 1) :
            (hist[i].kind = "raised" /\ hist[i + 1].x = hist[i].x)
                => hist[i + 1].invoked

\* C6 as stated: the three counters start at 0 and none of them is ever
\* lowered, whatever iteration indices the solver reports.
C6_CountersNeverDecrease ==
    /\ nfev = 0 /\ njev = 0 /\ nit = 0
    /\ [][nfev' >= nfev /\ njev' >= njev /\ nit' >= nit]_vars

\* C6 amended: the counters start at 0; nfev and njev are never lowered; nit
\* is, after every call, the index the most recent intermediate call reported
\* (and is left alone by every other call).
C6_CountersAmended ==
    /\ nfev = 0 /\ njev = 0 /\ nit = 0
    /\ [][/\ nfev' >= nfev
          /\ njev' >= njev
          /\ nit' = IF ret'.op = "intermediate" THEN ret'.iter ELSE nit]_vars

C6_Witness ==
    /\ nfev > 0 /\ njev > 0
    /\ ret.op = "intermediate" /\ ret.iter = 1 /\ nit = 1

----------------------------------------------------------------------------
(* Properties of the constraint stacking *)

\* the caller's constraints: the list given, or the one dictionary given
Cons == IF conlist.isdict THEN <<conlist.one>> ELSE conlist.many

\* the number of entries the constraints before the i-th contribute
RECURSIVE SegmentStart(_)
SegmentStart(i) ==
    IF i = 1 THEN 0 ELSE SegmentStart(i - 1) + Arity(Cons[i - 1].fun)

\* sum of the arities m_i
TotalArity == SegmentStart(Len(Cons) + 1)

\* C5: the constraint vector, the Jacobian rows and cl/cu are stacked in the
\* order of the constraint list: segment i holds constraint i's m_i entries,
\* evaluated with constraint i's own args; all have sum(m_i) entries; cl is 0
\* throughout and cu is 0 on an equality segment and INF on an inequality one.
C5_StackingOrder ==
    /\ (ret.op = "constraints" /\ ret.kind = "value") =>
          /\ Len(ret.out) = TotalArity
          /\ \A i \in 1..Len(Cons) : \A k \in 1..Arity(Cons[i].fun) :
                ret.out[SegmentStart(i) + k] =
                    [fn |-> Cons[i].fun, x |-> ret.x, args |-> Cons[i].args,
                     comp |-> k]
    /\ (ret.op = "jacobian" /\ ret.kind = "value") =>
          /\ Len(ret.out) = TotalArity
          /\ \A i \in 1..Len(Cons) : \A k \in 1..Arity(Cons[i].fun) :
                ret.out[SegmentStart(i) + k] =
                    [jac_of |-> Cons[i].fun, x |-> ret.x, args |-> Cons[i].args,
                     row |-> k]
    /\ (bnd.called /\ bnd.err = "none") =>
          /\ Len(bnd.cl) = TotalArity /\ Len(bnd.cu) = TotalArity
          /\ \A i \in 1..Len(Cons) : \A k \in 1..Arity(Cons[i].fun) :
                /\ bnd.cl[SegmentStart(i) + k] = "0.0"
                /\ Cons[i].type = "eq" => bnd.cu[SegmentStart(i) + k] = "0.0"
                /\ Cons[i].type = "ineq" => bnd.cu[SegmentStart(i) + k] = "1e19"

\* two constraints of different arity, kind and args, Jacobian and bounds taken
C5_Witness ==
    /\ Len(Cons) = 2
    /\ Arity(Cons[1].fun) > Arity(Cons[2].fun)
    /\ Cons[1].type = "ineq" /\ Cons[2].type = "eq"
    /\ Cons[1].args # Cons[2].args
    /\ ret.op = "jacobian" /\ ret.kind = "value"
    /\ bnd.called /\ bnd.err = "none"

\* C8: constructing the adapter with a constraint that has no 'jac' succeeds,
\* and jacobian(x) then returns rows for every constraint; likewise an
\* objective without gradient is given one.
C8_MissingJacobianIsDerived ==
    (\E i \in 1..Len(Cons) : ~Cons[i].jac) =>
        /\ pc # "failed"
        /\ (ret.op = "jacobian" /\ ret.kind = "value")
               => Len(ret.out) = TotalArity

----------------------------------------------------------------------------
(* Properties of minimize_ipopt *)

\* the items of a mapping, without their order
Items(o) == {o[i] : i \in 1..Len(o)}

\* the alias -> target pairs of the option translation
Aliases == {<<"disp", "print_level">>, <<"maxiter", "max_iter">>}

\* every option has been handed to the solver
AllApplied == pc \in {"solving", "returned"}

\* C3: disp and maxiter never reach addOption; an alias given alone is applied
\* under its target name, and given together with its target it is dropped
\* and the target's own value is applied.
C3_AliasesNeverReachSolver ==
    /\ \A i \in 1..Len(applied) : applied[i][1] \notin {"disp", "maxiter"}
    /\ AllApplied =>
          \A p \in Aliases :
              Has(call.given, p[1]) =>
                  IF Has(call.given, p[2])
                  THEN <<p[2], Get(call.given, p[2])>> \in Items(applied)
                  ELSE <<p[2], Get(call.given, p[1])>> \in Items(applied)

\* C7: a call leaves the caller's options mapping as it was, so a later call
\* given the same mapping object applies exactly the options a first call
\* given the mapping's original contents would apply.
C7_LaterCallAppliesOriginalOptions ==
    (run > 1 /\ call.options = "caller" /\ AllApplied) =>
        Items(applied) =
            Items(TranslateOptions(orig_options, call.tol, call.hess, call.hessp))

\* the errors of the configuration
ConfigurationErrors ==
    {"NotImplementedError:hessian", "NotImplementedError:jac", "ValueError:type",
     "TypeError:option"}

\* C4: a run that ends in a configuration error never entered nlp.solve, made
\* no adapter callback and produced no result; and a call given hess or hessp
\* ends in the Hessian error whatever its other arguments are.
C4_ConfigErrorsBeforeSolve ==
    /\ (pc = "raised" /\ err \in ConfigurationErrors) =>
          /\ ~solve_invoked
          /\ ncb = 0 /\ hist = <<>> /\ ret = NoRet /\ reported = <<>>
          /\ result = NoResult
    /\ (call.made /\ (call.hess # "None" \/ call.hessp # "None")) =>
          /\ pc = "raised"
          /\ err = "NotImplementedError:hessian"

\* an option is rejected after others were applied; nothing ran
C4_Witness ==
    /\ pc = "raised" /\ err = "TypeError:option"
    /\ Len(applied) > 2
    /\ nlp.m > 0

\* C9: once nlp.solve has returned, a result record exists, with success
\* exactly when the solver's status is 0, the solver's status and message,
\* and the adapter's counters, nit being the last iteration index reported to
\* intermediate (0 when none was).
C9_ResultReflectsSolver ==
    /\ result.made <=> pc = "returned"
    /\ pc = "returned" =>
          /\ result.success <=> (result.info.status = 0)
          /\ result.status = result.info.status
          /\ result.message = result.info.status_msg
          /\ result.nfev = nfev /\ result.njev = njev /\ result.nit = nit
          /\ result.nit = IF reported = <<>> THEN 0 ELSE reported[1]

\* a run the solver ends unsolved after one iteration and one evaluation
C9_Witness ==
    /\ pc = "returned"
    /\ result.status = 1 /\ ~result.success
    /\ reported = <<1>> /\ result.nit = 1
    /\ result.njev = 1

====
